---- MODULE Spec2Model ----
(***************************************************************************)
(* Model of the Daebug remote REPL core (src/rust): the job store          *)
(* (job.rs), the page registry (registry.rs), the log writer (writer.rs),  *)
(* the request parser (parser.rs), the file watcher (watcher.rs) and the   *)
(* poll/result handlers (server.rs).  Every handler runs as a              *)
(* task; a task takes one step per lock acquisition and per lock-protected *)
(* body, so that every interleaving the locks allow is explored.           *)
(***************************************************************************)
EXTENDS Integers, Sequences, FiniteSets, TLC

\* ---------------------------------------------------------------- bounds
NumTasks == 2
MaxOps == 4
MaxTicks == 1
MaxCalls == 3
MaxBlocks == 3
MaxTextOps == 2
MaxNodes == 4
MaxStoreOps == 5
MaxWatches == 3
MaxEvents == 2

\* ------------------------------------------------------ program constants
MsPerSec == 1000

\* ------------------------------------------------------------ input sets
Tasks == 1..NumTasks
NoTask == 0
NoWatcher == 0
DaebugDir == "daebug"
PageNames == {"p1", "p2"}
Urls == {"u1"}
PollUrls == {"u1", "u2"}
PageState == {"Idle", "Executing", "Failed"}
Codes == {"c1"}
ResultTexts == {"r1"}

ResultsInputs == {<<"t1">>}
Null == "null"

VARIABLES
    now,          \* the system clock, in milliseconds since the epoch
    ticks,        \* how often the clock has advanced
    ops,          \* how many operations have been started
    jobs,         \* JobManager.jobs: HashMap id -> Job
    jobs_lock,    \* the RwLock around jobs: [w |-> writer, r |-> readers]
    pages,        \* Registry.pages: HashMap name -> Page
    pages_lock,   \* the RwLock around pages
    files,        \* <root>/daebug/<page>.md: page -> content
    locks,        \* Writer.locks: the keys that have a page mutex
    locks_mutex,  \* the holder of the Mutex around Writer.locks
    page_mutex,   \* key -> the holder of that page's Mutex<()>
    task,         \* task -> its position and locals
    resp,         \* task -> what its last operation returned
    issued,       \* id -> how many create calls returned it
    delivered,    \* id -> how many poll responses carried it
    replied,      \* id -> how many reply blocks were written for it
    watcher,      \* Watcher.watcher: the notify watcher held, NoWatcher for None
    live,         \* the notify watchers not dropped yet: {[id, target]}
    rx            \* channel -> the events sent on it, the channel of watcher
                  \* n being the n-th

vars == <<now, ticks, ops, jobs, jobs_lock, pages, pages_lock,
          files, locks, locks_mutex, page_mutex, task, resp,
          issued, delivered, replied, watcher, live, rx>>

watch_vars == <<watcher, live, rx>>

\* ------------------------------------------------------------ job.rs
JobState == {"Requested", "Dispatched", "Started", "Finished", "Failed", "Timeout"}

\* format!("job-{}", timestamp): the id is the prefix followed by the millis
generate_id(ms) == <<"job-", ms>>

\* as_secs() of the same clock
current_time(ms) == ms \div MsPerSec

Job(id, page_name, code, state, started_at) ==
    [id |-> id, page_name |-> page_name, code |-> code,
     state |-> state, started_at |-> started_at]

\* HashMap::insert: an existing entry under the same key is replaced
HashMapInsert(m, k, v) ==
    [x \in (DOMAIN m) \cup {k} |-> IF x = k THEN v ELSE m[x]]

HashMapRemove(m, k) == [x \in (DOMAIN m) \ {k} |-> m[x]]

\* A lookup that does not compare the page name.
get_by_page_matches_any(js, page_name) ==
    {id \in DOMAIN js : js[id].state = "Dispatched"}

\* jobs.values().find(..): any matching value, the iteration order of a
\* HashMap being arbitrary
get_by_page_matches(js, page_name) ==
    {id \in DOMAIN js : js[id].page_name = page_name /\ js[id].state = "Dispatched"}


\* ------------------------------------------------------------ registry.rs
Page(name, url, last_seen, state) ==
    [name |-> name, url |-> url, last_seen |-> last_seen, state |-> state]

\* pages.insert(name, ..): an existing entry is replaced.
get_or_create_insert(ps, name, url, ms) ==
    HashMapInsert(ps, name, Page(name, url, current_time(ms), "Idle"))

\* pages.entry(name).or_insert_with(..): an existing entry is left as it is
get_or_create(ps, name, url, ms) ==
    IF name \in DOMAIN ps THEN ps
    ELSE HashMapInsert(ps, name, Page(name, url, current_time(ms), "Idle"))

\* ------------------------------------------------------------ writer.rs
\* File content is a sequence of tokens: "#", " " and "\n" are single
\* characters, every other token is a run of text holding none of them.
Marker == <<"#", "#", " ", "Test Results">>
NextSection == <<"\n", "#", "#", " ">>

\* format!("{:02}:{:02}:{:02}", hours, minutes, seconds)
TwoDigits(n) == IF n < 10 THEN "0" \o ToString(n) ELSE ToString(n)

current_time_str(ms) ==
    LET secs == current_time(ms)
    IN TwoDigits((secs \div 3600) % 24) \o ":" \o TwoDigits((secs \div 60) % 60)
           \o ":" \o TwoDigits(secs % 60)

\* The reply block: a blank line, the level-4 heading "<page> to agent at
\* <time> (<duration>ms)", a fenced block tagged JSON holding the result,
\* and a blank line.
Reply(page_name, time_str, duration_ms, result) ==
    <<"\n", "#", "#", "#", "#", " ",
      page_name \o " to agent at " \o time_str \o " (" \o ToString(duration_ms) \o "ms)",
      "\n", "fence JSON", "\n", result, "\n", "fence", "\n", "\n">>

\* str::find: the first position at which pat occurs in s, 0 when it does not
Find(s, pat) ==
    LET hits == {i \in 1..(Len(s) - Len(pat) + 1) : SubSeq(s, i, i + Len(pat) - 1) = pat}
    IN IF hits = {} THEN 0 ELSE CHOOSE i \in hits : \A j \in hits : i <= j

\* let new_content = content + &reply
write_reply_content(content, page_name, ms, result) ==
    content \o Reply(page_name, current_time_str(ms), 0, result)

update_test_results_content(content, results) ==
    LET pos == Find(content, Marker)
    IN IF pos > 0
       THEN LET after_marker == SubSeq(content, pos, Len(content))
                before == SubSeq(content, 1, pos - 1)
                next_section == Find(after_marker, NextSection)
            IN IF next_section > 0
               THEN before \o Marker \o <<"\n">> \o results \o <<"\n">>
                        \o SubSeq(after_marker, next_section, Len(after_marker))
               ELSE before \o Marker \o <<"\n">> \o results \o <<"\n">>
       ELSE content \o <<"\n">> \o Marker \o <<"\n">> \o results \o <<"\n">>

\* One mutex under one key for every page.
LockKeyShared(page_name) == "p1"

\* locks.entry(page_name.to_string()): the table is keyed by the page name
LockKey(page_name) == page_name


\* ------------------------------------------------------------ locks
Unlocked == [w |-> NoTask, r |-> {}]

\* RwLock::write: no writer and no reader inside
CanWrite(l) == l.w = NoTask /\ l.r = {}
\* RwLock::read: no writer inside
CanRead(l) == l.w = NoTask

WriteLocked(l, t) == [l EXCEPT !.w = t]
ReadLocked(l, t) == [l EXCEPT !.r = @ \cup {t}]
ReadUnlocked(l, t) == [l EXCEPT !.r = @ \ {t}]

\* ------------------------------------------------------------ tasks
NoId == generate_id(0)   \* the clock starts after the epoch: never generated

NoJob == Job(NoId, Null, Null, Null, 0)
NoPage == Page(Null, Null, 0, Null)

IdleTask ==
    [pc |-> "idle", op |-> "none", page |-> Null, url |-> Null, id |-> NoId,
     state |-> Null, ok |-> FALSE, text |-> Null, job |-> NoJob, key |-> Null,
     content |-> <<>>, results |-> <<>>,
     entry |-> NoPage,   \* poll_handler's _page
     called_at |-> 0,    \* the clock when the poll arrived
     read_err |-> FALSE, \* read_to_string returned Err (the code drops it)
     sub |-> NoWatcher]  \* the notify watcher a watch call has built

NoResp ==
    [kind |-> "none", code |-> Null, job_id |-> NoId, status |-> Null,
     page |-> Null, has_footer |-> FALSE, rx |-> NoWatcher]

At(t, pc) == task[t].pc = pc

Count(f, id) == IF id \in DOMAIN f THEN f[id] ELSE 0
Bump(f, id) == HashMapInsert(f, id, Count(f, id) + 1)

Init ==
    /\ now = 1
    /\ ticks = 0
    /\ ops = 0
    /\ jobs = <<>>
    /\ jobs_lock = Unlocked
    /\ pages = <<>>
    /\ pages_lock = Unlocked
    /\ files = [p \in PageNames |-> <<>>]
    /\ locks = {}
    /\ locks_mutex = NoTask
    /\ page_mutex = [p \in PageNames |-> NoTask]
    /\ task = [t \in Tasks |-> IdleTask]
    /\ resp = [t \in Tasks |-> NoResp]
    /\ issued = <<>>
    /\ delivered = <<>>
    /\ replied = <<>>
    /\ watcher = NoWatcher
    /\ live = {}
    /\ rx = <<>>

\* The clock advances, by a millisecond or by a second.
Tick ==
    /\ ticks < MaxTicks
    /\ \E d \in {1, MsPerSec} : now' = now + d
    /\ ticks' = ticks + 1
    /\ UNCHANGED <<watch_vars, ops, jobs, jobs_lock, pages, pages_lock, files, locks,
                   locks_mutex, page_mutex, task, resp, issued, delivered, replied>>

\* A task starts an operation.
Start(t, locals) ==
    /\ At(t, "idle")
    /\ ops' = ops + 1
    /\ task' = [task EXCEPT ![t] = locals]
    /\ resp' = [resp EXCEPT ![t] = NoResp]

\* ---------------------------------------------------- JobManager::create
\* the job is built, then self.jobs.write()
create_call(t, page_name, code) ==
    /\ Start(t, [IdleTask EXCEPT !.pc = "create_insert", !.op = "create",
                   !.job = Job(generate_id(now), page_name, code, "Requested",
                               current_time(now))])
    /\ CanWrite(jobs_lock)
    /\ jobs_lock' = WriteLocked(jobs_lock, t)
    /\ UNCHANGED <<watch_vars, now, ticks, jobs, pages, pages_lock, files, locks,
                   locks_mutex, page_mutex, issued, delivered, replied>>

create_insert(t) ==
    /\ At(t, "create_insert")
    /\ jobs' = HashMapInsert(jobs, task[t].job.id, task[t].job)
    /\ jobs_lock' = Unlocked
    /\ issued' = Bump(issued, task[t].job.id)
    /\ task' = [task EXCEPT ![t] = IdleTask]
    /\ UNCHANGED <<watch_vars, now, ticks, ops, resp, pages, pages_lock, files, locks,
                   locks_mutex, page_mutex, delivered, replied>>

\* ---------------------------------------------- JobManager::update_state
\* if let Some(job) = jobs.get_mut(id) { job.state = state; }
update_state(js, id, state) ==
    IF id \in DOMAIN js THEN [js EXCEPT ![id].state = state] ELSE js

\* self.jobs.write()
update_state_call(t, id, state) ==
    /\ Start(t, [IdleTask EXCEPT !.pc = "update_state_body", !.op = "update_state",
                   !.id = id, !.state = state])
    /\ CanWrite(jobs_lock)
    /\ jobs_lock' = WriteLocked(jobs_lock, t)
    /\ UNCHANGED <<watch_vars, now, ticks, jobs, pages, pages_lock, files, locks,
                   locks_mutex, page_mutex, issued, delivered, replied>>

update_state_body(t) ==
    /\ At(t, "update_state_body")
    /\ jobs' = update_state(jobs, task[t].id, task[t].state)
    /\ jobs_lock' = Unlocked
    /\ task' = [task EXCEPT ![t] = IdleTask]
    /\ UNCHANGED <<watch_vars, now, ticks, ops, resp, pages, pages_lock, files, locks,
                   locks_mutex, page_mutex, issued, delivered, replied>>

\* ---------------------------------------------------- JobManager::remove
\* self.jobs.write()
remove_call(t, id) ==
    /\ Start(t, [IdleTask EXCEPT !.pc = "remove_body", !.op = "remove", !.id = id])
    /\ CanWrite(jobs_lock)
    /\ jobs_lock' = WriteLocked(jobs_lock, t)
    /\ UNCHANGED <<watch_vars, now, ticks, jobs, pages, pages_lock, files, locks,
                   locks_mutex, page_mutex, issued, delivered, replied>>

remove_body(t) ==
    /\ At(t, "remove_body")
    /\ jobs' = HashMapRemove(jobs, task[t].id)
    /\ jobs_lock' = Unlocked
    /\ task' = [task EXCEPT ![t] = IdleTask]
    /\ UNCHANGED <<watch_vars, now, ticks, ops, resp, pages, pages_lock, files, locks,
                   locks_mutex, page_mutex, issued, delivered, replied>>


\* ------------------------------------------------------------ poll_handler
\* Registry::get_or_create: self.pages.write()
poll_call(t, name, url) ==
    /\ Start(t, [IdleTask EXCEPT !.pc = "poll_get_or_create", !.op = "poll",
                   !.page = name, !.url = url, !.called_at = now])
    /\ CanWrite(pages_lock)
    /\ pages_lock' = WriteLocked(pages_lock, t)
    /\ UNCHANGED <<watch_vars, now, ticks, jobs, jobs_lock, pages, files, locks,
                   locks_mutex, page_mutex, issued, delivered, replied>>

\* get_or_create returning with the registry still write-locked.
poll_get_or_create_locked(t) ==
    /\ At(t, "poll_get_or_create")
    /\ pages' = get_or_create(pages, task[t].page, task[t].url, now)
    /\ task' = [task EXCEPT ![t].pc = "poll_jobs_lock",
                            ![t].entry = pages'[task[t].page]]
    /\ UNCHANGED <<watch_vars, now, ticks, ops, jobs, jobs_lock, pages_lock, files, locks,
                   locks_mutex, page_mutex, resp, issued, delivered, replied>>

\* Registry::get_or_create: the entry, and the guard dropped on return
poll_get_or_create(t) ==
    /\ At(t, "poll_get_or_create")
    /\ pages' = get_or_create(pages, task[t].page, task[t].url, now)
    /\ pages_lock' = Unlocked
    /\ task' = [task EXCEPT ![t].pc = "poll_jobs_lock",
                            ![t].entry = pages'[task[t].page]]
    /\ UNCHANGED <<watch_vars, now, ticks, ops, jobs, jobs_lock, files, locks,
                   locks_mutex, page_mutex, resp, issued, delivered, replied>>

\* JobManager::get_by_page: self.jobs.read()
poll_jobs_lock(t) ==
    /\ At(t, "poll_jobs_lock")
    /\ CanRead(jobs_lock)
    /\ jobs_lock' = ReadLocked(jobs_lock, t)
    /\ task' = [task EXCEPT ![t].pc = "poll_get_by_page"]
    /\ UNCHANGED <<watch_vars, now, ticks, ops, jobs, pages, pages_lock, files, locks,
                   locks_mutex, page_mutex, resp, issued, delivered, replied>>

\* JobManager::get_by_page and the response built from what it returns
poll_get_by_page(t) ==
    /\ At(t, "poll_get_by_page")
    /\ LET found == get_by_page_matches(jobs, task[t].page)
       IN IF found = {}
          THEN /\ resp' = [resp EXCEPT ![t] = [NoResp EXCEPT !.kind = "poll",
                                                  !.page = task[t].page]]
               /\ UNCHANGED delivered
          ELSE \E id \in found :
                  /\ resp' = [resp EXCEPT ![t] = [NoResp EXCEPT !.kind = "poll",
                                                     !.page = task[t].page,
                                                     !.code = jobs[id].code,
                                                     !.job_id = jobs[id].id]]
                  /\ delivered' = Bump(delivered, jobs[id].id)
    /\ jobs_lock' = ReadUnlocked(jobs_lock, t)
    /\ task' = [task EXCEPT ![t] = IdleTask]
    /\ UNCHANGED <<watch_vars, now, ticks, ops, jobs, pages, pages_lock, files, locks,
                   locks_mutex, page_mutex, issued, replied>>

\* ------------------------------------------------- Registry::update_state
\* if let Some(page) = pages.get_mut(name) { state, last_seen = now }
registry_update_state(ps, name, state, ms) ==
    IF name \in DOMAIN ps
    THEN [ps EXCEPT ![name].state = state, ![name].last_seen = current_time(ms)]
    ELSE ps

\* self.pages.write()
registry_update_state_call(t, name, state) ==
    /\ Start(t, [IdleTask EXCEPT !.pc = "registry_update_state_body",
                   !.op = "registry_update_state", !.page = name, !.state = state])
    /\ CanWrite(pages_lock)
    /\ pages_lock' = WriteLocked(pages_lock, t)
    /\ UNCHANGED <<watch_vars, now, ticks, jobs, jobs_lock, pages, files, locks,
                   locks_mutex, page_mutex, issued, delivered, replied>>

registry_update_state_body(t) ==
    /\ At(t, "registry_update_state_body")
    /\ pages' = registry_update_state(pages, task[t].page, task[t].state, now)
    /\ pages_lock' = Unlocked
    /\ task' = [task EXCEPT ![t] = IdleTask]
    /\ UNCHANGED <<watch_vars, now, ticks, ops, resp, jobs, jobs_lock, files, locks,
                   locks_mutex, page_mutex, issued, delivered, replied>>

\* ---------------------------------------------------------- result_handler
\* result_str is the serialized value when ok, the error text otherwise
\* JobManager::get: self.jobs.read()
result_call(t, job_id, ok, text) ==
    /\ Start(t, [IdleTask EXCEPT !.pc = "result_get", !.op = "result",
                   !.id = job_id, !.ok = ok, !.text = text])
    /\ CanRead(jobs_lock)
    /\ jobs_lock' = ReadLocked(jobs_lock, t)
    /\ UNCHANGED <<watch_vars, now, ticks, jobs, pages, pages_lock, files, locks,
                   locks_mutex, page_mutex, issued, delivered, replied>>

\* An unknown job id answered with a server error.
result_get_not_found_fails(t) ==
    /\ At(t, "result_get")
    /\ jobs_lock' = ReadUnlocked(jobs_lock, t)
    /\ IF task[t].id \in DOMAIN jobs
       THEN /\ task' = [task EXCEPT ![t].pc = "get_lock_lock",
                                    ![t].job = jobs[task[t].id],
                                    ![t].page = jobs[task[t].id].page_name]
            /\ UNCHANGED resp
       ELSE /\ task' = [task EXCEPT ![t] = IdleTask]
            /\ resp' = [resp EXCEPT ![t] = [NoResp EXCEPT !.kind = "result",
                                               !.job_id = task[t].id, !.status = "500"]]
    /\ UNCHANGED <<watch_vars, now, ticks, ops, jobs, pages, pages_lock, files, locks,
                   locks_mutex, page_mutex, issued, delivered, replied>>

\* if let Some(job) = get(job_id) { write_reply(job.page_name, ..) } else 200
result_get(t) ==
    /\ At(t, "result_get")
    /\ jobs_lock' = ReadUnlocked(jobs_lock, t)
    /\ IF task[t].id \in DOMAIN jobs
       THEN /\ task' = [task EXCEPT ![t].pc = "get_lock_lock",
                                    ![t].job = jobs[task[t].id],
                                    ![t].page = jobs[task[t].id].page_name]
            /\ UNCHANGED resp
       ELSE /\ task' = [task EXCEPT ![t] = IdleTask]
            /\ resp' = [resp EXCEPT ![t] = [NoResp EXCEPT !.kind = "result",
                                               !.job_id = task[t].id, !.status = "200"]]
    /\ UNCHANGED <<watch_vars, now, ticks, ops, jobs, pages, pages_lock, files, locks,
                   locks_mutex, page_mutex, issued, delivered, replied>>

\* update_state(job_id, Finished): self.jobs.write()
result_update_lock(t) ==
    /\ At(t, "result_update_lock")
    /\ CanWrite(jobs_lock)
    /\ jobs_lock' = WriteLocked(jobs_lock, t)
    /\ task' = [task EXCEPT ![t].pc = "result_update_state"]
    /\ UNCHANGED <<watch_vars, now, ticks, ops, jobs, pages, pages_lock, files, locks,
                   locks_mutex, page_mutex, resp, issued, delivered, replied>>

result_update_state(t) ==
    /\ At(t, "result_update_state")
    /\ jobs' = update_state(jobs, task[t].id, "Finished")
    /\ jobs_lock' = Unlocked
    /\ resp' = [resp EXCEPT ![t] = [NoResp EXCEPT !.kind = "result",
                                       !.job_id = task[t].id, !.status = "200"]]
    /\ task' = [task EXCEPT ![t] = IdleTask]
    /\ UNCHANGED <<watch_vars, now, ticks, ops, pages, pages_lock, files, locks,
                   locks_mutex, page_mutex, issued, delivered, replied>>

\* ------------------------------------------- Writer::update_test_results
update_test_results_call(t, page_name, results) ==
    /\ Start(t, [IdleTask EXCEPT !.pc = "get_lock_lock", !.op = "update_test_results",
                   !.page = page_name, !.results = results])
    /\ UNCHANGED <<watch_vars, now, ticks, jobs, jobs_lock, pages, pages_lock, files, locks,
                   locks_mutex, page_mutex, issued, delivered, replied>>

\* ------------------------------------------------------- Writer::get_lock
\* self.locks.lock()
get_lock_lock(t) ==
    /\ At(t, "get_lock_lock")
    /\ locks_mutex = NoTask
    /\ locks_mutex' = t
    /\ task' = [task EXCEPT ![t].pc = "get_lock_entry"]
    /\ UNCHANGED <<watch_vars, now, ticks, ops, jobs, jobs_lock, pages, pages_lock, files, locks,
                   page_mutex, resp, issued, delivered, replied>>

\* entry(page_name).or_insert_with(..).clone(), and the table guard dropped
get_lock_entry(t) ==
    /\ At(t, "get_lock_entry")
    /\ locks' = locks \cup {LockKey(task[t].page)}
    /\ locks_mutex' = NoTask
    /\ task' = [task EXCEPT ![t].pc = "page_lock", ![t].key = LockKey(task[t].page)]
    /\ UNCHANGED <<watch_vars, now, ticks, ops, jobs, jobs_lock, pages, pages_lock, files,
                   page_mutex, resp, issued, delivered, replied>>

\* Taking the page's mutex without waiting for its holder.
page_lock_unchecked(t) ==
    /\ At(t, "page_lock")
    /\ page_mutex' = [page_mutex EXCEPT ![task[t].key] = t]
    /\ task' = [task EXCEPT ![t].pc = "read_file"]
    /\ UNCHANGED <<watch_vars, now, ticks, ops, jobs, jobs_lock, pages, pages_lock, files, locks,
                   locks_mutex, resp, issued, delivered, replied>>

\* let _guard = lock.lock().unwrap()
page_lock(t) ==
    /\ At(t, "page_lock")
    /\ page_mutex[task[t].key] = NoTask
    /\ page_mutex' = [page_mutex EXCEPT ![task[t].key] = t]
    /\ task' = [task EXCEPT ![t].pc = "read_file"]
    /\ UNCHANGED <<watch_vars, now, ticks, ops, jobs, jobs_lock, pages, pages_lock, files, locks,
                   locks_mutex, resp, issued, delivered, replied>>

\* fs::read_to_string(&file_path).unwrap_or_default()
read_file(t) ==
    /\ At(t, "read_file")
    /\ task' = [task EXCEPT ![t].pc = "write_file", ![t].content = files[task[t].page]]
    /\ UNCHANGED <<watch_vars, now, ticks, ops, jobs, jobs_lock, pages, pages_lock, files, locks,
                   locks_mutex, page_mutex, resp, issued, delivered, replied>>

\* fs::read_to_string fails (the file is not valid UTF-8, or not readable):
\* unwrap_or_default() turns the error into the empty string.
read_file_err(t) ==
    /\ At(t, "read_file")
    /\ task' = [task EXCEPT ![t].pc = "write_file", ![t].content = <<>>,
                            ![t].read_err = TRUE]
    /\ UNCHANGED <<watch_vars, now, ticks, ops, jobs, jobs_lock, pages, pages_lock, files, locks,
                   locks_mutex, page_mutex, resp, issued, delivered, replied>>

\* The guard is dropped when the writer returns.
Unguarded(t) == [page_mutex EXCEPT ![task[t].key] = NoTask]

\* A handler that goes on to update_state whatever write_reply returned.
write_reply_write_unchecked(t) ==
    /\ At(t, "write_file")
    /\ task[t].op = "result"
    /\ page_mutex' = Unguarded(t)
    /\ \/ /\ files' = [files EXCEPT ![task[t].page] =
                          write_reply_content(task[t].content, task[t].page, now,
                                              task[t].text)]
          /\ replied' = Bump(replied, task[t].id)
       \/ UNCHANGED <<files, replied>>
    /\ task' = [task EXCEPT ![t].pc = "result_update_lock", ![t].content = <<>>,
                            ![t].key = Null]
    /\ UNCHANGED <<watch_vars, now, ticks, ops, jobs, jobs_lock, pages, pages_lock, locks,
                   locks_mutex, resp, issued, delivered>>

\* write_reply: parse_file_ast(&content)? and fs::write(&file_path, content +
\* &reply)? either succeed or return the error; the guard is dropped either
\* way.  Back in result_handler: Err -> 500, Ok -> on to update_state.
write_reply_write(t) ==
    /\ At(t, "write_file")
    /\ task[t].op = "result"
    /\ page_mutex' = Unguarded(t)
    /\ \/ /\ files' = [files EXCEPT ![task[t].page] =
                          write_reply_content(task[t].content, task[t].page, now,
                                              task[t].text)]
          /\ replied' = Bump(replied, task[t].id)
          /\ task' = [task EXCEPT ![t].pc = "result_update_lock", ![t].content = <<>>,
                                  ![t].key = Null]
          /\ UNCHANGED resp
       \/ /\ resp' = [resp EXCEPT ![t] = [NoResp EXCEPT !.kind = "result",
                                             !.job_id = task[t].id, !.status = "500"]]
          /\ task' = [task EXCEPT ![t] = IdleTask]
          /\ UNCHANGED <<files, replied>>
    /\ UNCHANGED <<watch_vars, now, ticks, ops, jobs, jobs_lock, pages, pages_lock, locks,
                   locks_mutex, issued, delivered>>

\* update_test_results: fs::write(&file_path, new_content)?
update_test_results_write(t) ==
    /\ At(t, "write_file")
    /\ task[t].op = "update_test_results"
    /\ page_mutex' = Unguarded(t)
    /\ \/ /\ files' = [files EXCEPT ![task[t].page] =
                          update_test_results_content(task[t].content, task[t].results)]
          /\ resp' = [resp EXCEPT ![t] = [NoResp EXCEPT !.kind = "update_test_results",
                                             !.status = "Ok"]]
       \/ /\ resp' = [resp EXCEPT ![t] = [NoResp EXCEPT !.kind = "update_test_results",
                                             !.status = "Err"]]
          /\ UNCHANGED files
    /\ task' = [task EXCEPT ![t] = IdleTask]
    /\ UNCHANGED <<watch_vars, now, ticks, ops, jobs, jobs_lock, pages, pages_lock, locks,
                   locks_mutex, issued, delivered, replied>>

\* ------------------------------------------------------------ the system
Ids == (DOMAIN jobs) \cup {NoId}

Next ==
    \/ Tick
    \/ \E t \in Tasks :
        \/ ops < MaxOps /\ \E p \in PageNames, c \in Codes : create_call(t, p, c)
        \/ create_insert(t)
        \/ ops < MaxOps /\ \E id \in Ids, st \in JobState : update_state_call(t, id, st)
        \/ update_state_body(t)
        \/ ops < MaxOps /\ \E id \in Ids : remove_call(t, id)
        \/ remove_body(t)
        \/ ops < MaxOps /\ \E p \in PageNames, u \in Urls : poll_call(t, p, u)
        \/ poll_get_or_create(t)
        \/ poll_jobs_lock(t)
        \/ poll_get_by_page(t)
        \/ ops < MaxOps /\ \E id \in Ids, ok \in BOOLEAN, x \in ResultTexts :
                               result_call(t, id, ok, x)
        \/ result_get(t)
        \/ result_update_lock(t)
        \/ result_update_state(t)
        \/ ops < MaxOps /\ \E p \in PageNames, rs \in ResultsInputs :
                               update_test_results_call(t, p, rs)
        \/ get_lock_lock(t)
        \/ get_lock_entry(t)
        \/ page_lock(t)
        \/ read_file(t)
        \/ write_reply_write(t)
        \/ update_test_results_write(t)

Spec == Init /\ [][Next]_vars


\* The handlers that take more than one lock, the writer, and create, which
\* gives result_handler jobs to find; at most MaxCalls operations are
\* started.  The clock stands still: no lock is taken or released by it.
NextLocks ==
    \E t \in Tasks :
        \/ ops < MaxCalls /\ \E p \in PageNames, c \in Codes : create_call(t, p, c)
        \/ create_insert(t)
        \/ ops < MaxCalls /\ \E p \in PageNames, u \in Urls : poll_call(t, p, u)
        \/ poll_get_or_create(t)
        \/ poll_jobs_lock(t)
        \/ poll_get_by_page(t)
        \/ ops < MaxCalls /\ \E id \in Ids, ok \in BOOLEAN, x \in ResultTexts :
                                 result_call(t, id, ok, x)
        \/ result_get(t)
        \/ result_update_lock(t)
        \/ result_update_state(t)
        \/ ops < MaxCalls /\ \E p \in PageNames, rs \in ResultsInputs :
                                 update_test_results_call(t, p, rs)
        \/ get_lock_lock(t)
        \/ get_lock_entry(t)
        \/ page_lock(t)
        \/ read_file(t)
        \/ write_reply_write(t)
        \/ update_test_results_write(t)

SpecLocks == Init /\ [][NextLocks]_vars

\* The two stores on their own, one request at a time: jobs are created and
\* dispatched, pages poll under either url and report their state, the clock
\* advances; at most MaxStoreOps operations are started.
NextStore ==
    \/ Tick
    \/ \E t \in {1} :
        \/ ops < MaxStoreOps /\ \E p \in PageNames, c \in Codes : create_call(t, p, c)
        \/ create_insert(t)
        \/ ops < MaxStoreOps /\ \E id \in Ids : update_state_call(t, id, "Dispatched")
        \/ update_state_body(t)
        \/ ops < MaxStoreOps /\ \E p \in PageNames, u \in PollUrls : poll_call(t, p, u)
        \/ poll_get_or_create(t)
        \/ poll_jobs_lock(t)
        \/ poll_get_by_page(t)
        \/ ops < MaxStoreOps /\ \E p \in PageNames, st \in PageState :
                                    registry_update_state_call(t, p, st)
        \/ registry_update_state_body(t)

SpecStore == Init /\ [][NextStore]_vars

\* What the server does by itself once a request has arrived: the runtime
\* runs every handler to its end, and the clock keeps advancing.  Nothing
\* makes a request arrive.
StoreSteps ==
    \E t \in {1} :
        \/ create_insert(t)
        \/ update_state_body(t)
        \/ poll_get_or_create(t)
        \/ poll_jobs_lock(t)
        \/ poll_get_by_page(t)
        \/ registry_update_state_body(t)

SpecStoreLive == SpecStore /\ WF_vars(Tick) /\ WF_vars(StoreSteps)

\* ------------------------------------------------------------ log files
\* What a log may hold when the writer finds it: the file belongs to the
\* agent and to people as much as to the server.  A request block as in
\* test_parse_simple_request, the results heading, another level-2 heading,
\* a line of text, and a fenced block that quotes the results heading.
RequestBlock(code) ==
    <<"\n", "#", "#", "#", " ", "agent to p1 at 10:00:00", "\n", "\n",
      "fence js", "\n", code, "\n", "fence", "\n">>
MarkerLine == Marker \o <<"\n">>
OtherHeading == <<"#", "#", " ", "Notes", "\n">>
TextLine == <<"some text", "\n">>
FencedMarker == <<"fence", "\n">> \o Marker \o <<"\n", "fence", "\n">>

LogBlocks ==
    {RequestBlock("c1"), RequestBlock("c2"), MarkerLine, OtherHeading, TextLine,
     FencedMarker}

RECURSIVE Concat(_)
Concat(blocks) ==
    IF blocks = <<>> THEN <<>> ELSE Head(blocks) \o Concat(Tail(blocks))

Logs ==
    {Concat(bs) : bs \in UNION {[1..n -> LogBlocks] : n \in 0..MaxBlocks}}

\* results that hold a line of text, and results that hold a heading line too
TextResults == {<<"t1">>, <<"t1", "\n", "#", "#", " ", "t2">>}

\* What the writer is about to hand to fs::write.
NewContent(t) ==
    IF task[t].op = "result"
    THEN write_reply_content(task[t].content, task[t].page, now, task[t].text)
    ELSE update_test_results_content(task[t].content, task[t].results)

\* fs::write truncates the file and then writes the bytes.  The process
\* dying in between leaves any proper prefix of the new content in the
\* file; everything the process held in memory is gone with it.
crash_during_write(t) ==
    /\ At(t, "write_file")
    /\ \E k \in 0..(Len(NewContent(t)) - 1) :
          files' = [files EXCEPT ![task[t].page] = SubSeq(NewContent(t), 1, k)]
    /\ jobs' = <<>>
    /\ pages' = <<>>
    /\ jobs_lock' = Unlocked
    /\ pages_lock' = Unlocked
    /\ locks' = {}
    /\ locks_mutex' = NoTask
    /\ page_mutex' = [p \in PageNames |-> NoTask]
    /\ task' = [u \in Tasks |-> IdleTask]
    /\ resp' = [u \in Tasks |-> IF u = t THEN [NoResp EXCEPT !.kind = "crash"]
                                ELSE NoResp]
    /\ UNCHANGED <<watch_vars, now, ticks, ops, issued, delivered, replied>>

\* The server starts beside a log that already exists.
InitText ==
    /\ now = 1
    /\ ticks = 0
    /\ ops = 0
    /\ jobs = <<>>
    /\ jobs_lock = Unlocked
    /\ pages = <<>>
    /\ pages_lock = Unlocked
    /\ \E log \in Logs : files = [p \in PageNames |-> IF p = "p1" THEN log ELSE <<>>]
    /\ locks = {}
    /\ locks_mutex = NoTask
    /\ page_mutex = [p \in PageNames |-> NoTask]
    /\ task = [t \in Tasks |-> IdleTask]
    /\ resp = [t \in Tasks |-> NoResp]
    /\ issued = <<>>
    /\ delivered = <<>>
    /\ replied = <<>>
    /\ watcher = NoWatcher
    /\ live = {}
    /\ rx = <<>>

\* One request at a time on page p1: what a single call of the writer does
\* to the file it finds, a read that fails and a crash included.
NextText ==
    \E t \in {1} :
        \/ ops < MaxTextOps /\ \E c \in Codes : create_call(t, "p1", c)
        \/ create_insert(t)
        \/ ops < MaxTextOps /\ \E id \in DOMAIN jobs, ok \in BOOLEAN, x \in ResultTexts :
                                  result_call(t, id, ok, x)
        \/ result_get(t)
        \/ result_update_lock(t)
        \/ result_update_state(t)
        \/ ops < MaxTextOps /\ \E rs \in TextResults :
                                  update_test_results_call(t, "p1", rs)
        \/ get_lock_lock(t)
        \/ get_lock_entry(t)
        \/ page_lock(t)
        \/ read_file(t)
        \/ read_file_err(t)
        \/ write_reply_write(t)
        \/ update_test_results_write(t)
        \/ crash_during_write(t)

SpecText == InitText /\ [][NextText]_vars

\* ------------------------------------------------------------ parser.rs
\* The children of the Root node that to_mdast returns, as far as the parser
\* and the log format tell them apart: headings of request blocks ("<from> to
\* <to> at ..", level 3) and of reply blocks (level 4), fenced code with its
\* language tag, paragraphs.
HeadingNode(depth, from, to) ==
    [type |-> "heading", depth |-> depth, from |-> from, to |-> to,
     lang |-> Null, value |-> Null]
CodeNode(lang, value) ==
    [type |-> "code", depth |-> 0, from |-> Null, to |-> Null,
     lang |-> lang, value |-> value]
ParagraphNode ==
    [type |-> "paragraph", depth |-> 0, from |-> Null, to |-> Null,
     lang |-> Null, value |-> Null]

AstNodes ==
    {HeadingNode(3, "agent", "p1"), HeadingNode(3, "agent", "p2"),
     HeadingNode(4, "p1", "agent"),
     CodeNode("js", "c1"), CodeNode("JS", "c2"), CodeNode("JSON", "r1"),
     ParagraphNode}

Asts == UNION {[1..n -> AstNodes] : n \in 0..MaxNodes}

\* str::to_lowercase on the language tags that occur
to_lowercase(lang) ==
    CASE lang = "JS" -> "js"
      [] lang = "JSON" -> "json"
      [] OTHER -> lang

NoRequest == [NoResp EXCEPT !.kind = "parse_request", !.status = "None"]

\* find_request_in_ast on one child: a Code node tagged js or javascript is
\* the request, whatever precedes it; every other node gives None.
find_request_in_node(node, page_name) ==
    IF /\ node.type = "code"
       /\ node.lang # Null
       /\ to_lowercase(node.lang) \in {"js", "javascript"}
    THEN [NoResp EXCEPT !.kind = "parse_request", !.status = "Some",
                        !.page = page_name, !.code = node.value,
                        !.has_footer = TRUE]
    ELSE NoRequest

\* find_request_in_ast on the Root: the first child that gives a request
find_request_in_ast(ast, page_name) ==
    LET hits == {i \in 1..Len(ast) :
                    find_request_in_node(ast[i], page_name).status = "Some"}
    IN IF hits = {} THEN NoRequest
       ELSE find_request_in_node(ast[CHOOSE i \in hits : \A j \in hits : i <= j],
                                 page_name)

\* parse_request: to_mdast(text) has given the tree
parse_request_call(t, ast, page_name) ==
    /\ Start(t, [IdleTask EXCEPT !.pc = "find_request_in_ast", !.op = "parse_request",
                   !.page = page_name, !.content = ast])
    /\ UNCHANGED <<watch_vars, now, ticks, jobs, jobs_lock, pages, pages_lock, files, locks,
                   locks_mutex, page_mutex, issued, delivered, replied>>

parse_request_return(t) ==
    /\ At(t, "find_request_in_ast")
    /\ resp' = [resp EXCEPT ![t] = find_request_in_ast(task[t].content, task[t].page)]
    /\ task' = [task EXCEPT ![t] = IdleTask]
    /\ UNCHANGED <<watch_vars, now, ticks, ops, jobs, jobs_lock, pages, pages_lock, files, locks,
                   locks_mutex, page_mutex, issued, delivered, replied>>

\* One call of parse_request on a parsed log.
NextParse ==
    \E t \in {1} :
        \/ ops = 0 /\ \E ast \in Asts, p \in PageNames : parse_request_call(t, ast, p)
        \/ parse_request_return(t)

SpecParse == Init /\ [][NextParse]_vars

\* ------------------------------------------------------------ watcher.rs
\* What a notify watcher is asked to watch: the log file of a page
\* (NonRecursive) or the directory that holds the logs (Recursive).
WatchTargets == PageNames \cup {DaebugDir}
Matches(target, file) == target = file \/ target = DaebugDir

Target(id) == (CHOOSE w \in live : w.id = id).target

\* channel(), RecommendedWatcher::new(..)? and watcher.watch(target, ..)?:
\* the watcher exists and sends on its channel from here on; an Err from
\* either is returned at once and nothing is kept.
watch_call(t, op, target) ==
    /\ \/ /\ Start(t, [IdleTask EXCEPT !.pc = "watch_store", !.op = op,
                         !.page = target, !.sub = Len(rx) + 1])
          /\ rx' = Append(rx, <<>>)
          /\ live' = live \cup {[id |-> Len(rx) + 1, target |-> target]}
       \/ /\ At(t, "idle")
          /\ ops' = ops + 1
          /\ resp' = [resp EXCEPT ![t] = [NoResp EXCEPT !.kind = op, !.status = "Err"]]
          /\ UNCHANGED <<task, rx, live>>
    /\ UNCHANGED <<watcher, now, ticks, jobs, jobs_lock, pages, pages_lock, files,
                   locks, locks_mutex, page_mutex, issued, delivered, replied>>

\* watch_page: the target is <root>/daebug/<page_name>.md
watch_page_call(t, page_name) == watch_call(t, "watch_page", page_name)

\* watch_directory
watch_directory_call(t, dir) == watch_call(t, "watch_directory", dir)

\* The new watcher is stored and the one stored before stays alive.
watch_store_keep(t) ==
    /\ At(t, "watch_store")
    /\ watcher' = task[t].sub
    /\ resp' = [resp EXCEPT ![t] = [NoResp EXCEPT !.kind = task[t].op,
                                       !.status = "Ok", !.rx = task[t].sub]]
    /\ task' = [task EXCEPT ![t] = IdleTask]
    /\ UNCHANGED <<live, rx, now, ticks, ops, jobs, jobs_lock, pages, pages_lock,
                   files, locks, locks_mutex, page_mutex, issued, delivered, replied>>

\* *self.watcher.lock().unwrap() = Some(watcher): the value stored before is
\* dropped by the assignment, and with it its subscription and its sender;
\* Ok(rx) is returned.
watch_store(t) ==
    /\ At(t, "watch_store")
    /\ live' = {w \in live : w.id # watcher}
    /\ watcher' = task[t].sub
    /\ resp' = [resp EXCEPT ![t] = [NoResp EXCEPT !.kind = task[t].op,
                                       !.status = "Ok", !.rx = task[t].sub]]
    /\ task' = [task EXCEPT ![t] = IdleTask]
    /\ UNCHANGED <<rx, now, ticks, ops, jobs, jobs_lock, pages, pages_lock,
                   files, locks, locks_mutex, page_mutex, issued, delivered, replied>>

\* A log file changes: every watcher alive whose target covers the file calls
\* its handler, tx.send(event).  Events are sent until MaxEvents are out.
fs_event(file) ==
    /\ \E w \in live : Matches(w.target, file)
    /\ Len(Concat(rx)) < MaxEvents
    /\ rx' = [id \in 1..Len(rx) |->
                 IF \E w \in live : w.id = id /\ Matches(w.target, file)
                 THEN Append(rx[id], file) ELSE rx[id]]
    /\ UNCHANGED <<watcher, live, now, ticks, ops, jobs, jobs_lock, pages, pages_lock,
                   files, locks, locks_mutex, page_mutex, task, resp, issued,
                   delivered, replied>>

\* Calls of the watcher from several threads while the logs change.
NextWatch ==
    \/ \E f \in PageNames : fs_event(f)
    \/ \E t \in Tasks :
        \/ ops < MaxWatches /\ \E p \in PageNames : watch_page_call(t, p)
        \/ ops < MaxWatches /\ watch_directory_call(t, DaebugDir)
        \/ watch_store(t)

SpecWatch == Init /\ [][NextWatch]_vars

\* ------------------------------------------------------------ the claims
InFlight(page_name) ==
    {id \in DOMAIN jobs : /\ jobs[id].page_name = page_name
                          /\ jobs[id].state \in {"Dispatched", "Started"}}

Requested(page_name) ==
    {id \in DOMAIN jobs : /\ jobs[id].page_name = page_name
                          /\ jobs[id].state = "Requested"}

\* C1: for every page, at most one job of that page is Dispatched or Started.
C1_SingleFlight == \A p \in PageNames : Cardinality(InFlight(p)) <= 1

\* C2: no id is returned by two create calls.
C2_UniqueIds == \A id \in DOMAIN issued : issued[id] <= 1

LegalEdges ==
    {<<"Requested", "Dispatched">>, <<"Dispatched", "Started">>,
     <<"Started", "Finished">>, <<"Started", "Failed">>,
     <<"Dispatched", "Timeout">>, <<"Started", "Timeout">>}

\* C3: a requested state change on a legal edge sets the new state, any other
\* requested change leaves the job's state as it was.
C3_LegalTransitionsOnly ==
    [][\A t \in Tasks :
          (/\ task[t].pc \in {"update_state_body", "result_update_state"}
           /\ task'[t].pc = "idle"
           /\ task[t].id \in DOMAIN jobs)
          => LET requested == IF At(t, "update_state_body") THEN task[t].state
                              ELSE "Finished"
                 old == jobs[task[t].id].state
             IN jobs'[task[t].id].state =
                    IF <<old, requested>> \in LegalEdges THEN requested ELSE old]_vars

\* C4: a poll by a page that has a Requested job and no job in flight returns
\* the code and id of a Requested job of that page and moves it to Dispatched.
C4_NoLostDispatch ==
    [][\A t \in Tasks :
          (/\ At(t, "poll_get_by_page")
           /\ task'[t].pc = "idle"
           /\ Requested(task[t].page) # {}
           /\ InFlight(task[t].page) = {})
          => \E id \in Requested(task[t].page) :
                /\ resp'[t].job_id = id
                /\ resp'[t].code = jobs[id].code
                /\ jobs'[id].state = "Dispatched"]_vars

\* C5: a job's code and id are carried by at most one poll response.
C5_NoDuplicateDispatch == \A id \in DOMAIN delivered : delivered[id] <= 1

\* C6: at most one reply block is written for a job.
C6_AtMostOneReply == \A id \in DOMAIN replied : replied[id] <= 1

\* C7: after the reply is written the job is Finished when ok, Failed otherwise.
C7_StateFollowsOk ==
    [][\A t \in Tasks :
          (/\ At(t, "result_update_state")
           /\ task'[t].pc = "idle"
           /\ task[t].id \in DOMAIN jobs)
          => jobs'[task[t].id].state = IF task[t].ok THEN "Finished" ELSE "Failed"]_vars


HoldsJobsLock(t) == jobs_lock.w = t \/ t \in jobs_lock.r
HoldsPagesLock(t) == pages_lock.w = t \/ t \in pages_lock.r
HoldsPageMutex(t) == \E k \in PageNames : page_mutex[k] = t
Waiting(t) ==
    task[t].pc \in {"poll_jobs_lock", "result_update_lock", "get_lock_lock", "page_lock"}
Blocked(t) ==
    \/ At(t, "poll_jobs_lock") /\ ~CanRead(jobs_lock)
    \/ At(t, "result_update_lock") /\ ~CanWrite(jobs_lock)
    \/ At(t, "get_lock_lock") /\ locks_mutex # NoTask
    \/ At(t, "page_lock") /\ page_mutex[task[t].key] # NoTask
InCritical(t) == task[t].pc \in {"read_file", "write_file"}

C9_PagesIndependent ==
    /\ locks_mutex # NoTask =>
          At(locks_mutex, "get_lock_entry") /\ ~HoldsPageMutex(locks_mutex)
    /\ \A t, u \in Tasks :
          (/\ At(t, "page_lock")
           /\ HoldsPageMutex(u)
           /\ task[u].page # task[t].page)
          => page_mutex[task[t].key] # u

\* A writer holds page A's mutex while a writer of page B takes B's mutex
\* and is inside its own read-modify-write.
C9_Witness ==
    \E t, u \in Tasks :
        /\ InCritical(t) /\ InCritical(u)
        /\ task[t].page # task[u].page
        /\ page_mutex[task[t].key] = t /\ page_mutex[task[u].key] = u

\* C10: no task holds the job store's lock and the registry's lock together,
\* no task holding a page mutex waits for any lock, and whenever some task is
\* inside an operation, one of them can take its next step.
C10_LockDiscipline ==
    /\ \A t \in Tasks : ~(HoldsJobsLock(t) /\ HoldsPagesLock(t))
    /\ \A t \in Tasks : HoldsPageMutex(t) => ~Waiting(t)
    /\ (\E t \in Tasks : ~At(t, "idle"))
          => \E t \in Tasks : ~At(t, "idle") /\ ~Blocked(t)

\* A result request holds its page's mutex while a poll holds the job
\* store's lock: locks of both kinds are held at once, by different tasks.
C10_Witness ==
    \E t, u \in Tasks :
        /\ t # u
        /\ HoldsPageMutex(t) /\ task[t].op = "result"
        /\ HoldsJobsLock(u) /\ task[u].op = "poll"


\* Where the request block that carries a job's code ends in a log, 0 when
\* the log holds no such block.
RequestEnd(content, code) ==
    LET at == Find(content, RequestBlock(code))
    IN IF at = 0 THEN 0 ELSE at + Len(RequestBlock(code)) - 1

\* C11: the reply is put right behind the code fence of the request it
\* answers, before whatever follows that request in the log.
C11_ReplyAfterItsRequest ==
    [][\A t \in Tasks :
          (/\ At(t, "write_file") /\ task[t].op = "result"
           /\ task'[t].pc = "result_update_lock"
           /\ RequestEnd(task[t].content, task[t].job.code) > 0)
          => LET content == task[t].content
                 end == RequestEnd(content, task[t].job.code)
             IN files'[task[t].page] =
                    SubSeq(content, 1, end)
                        \o Reply(task[t].page, current_time_str(now), 0, task[t].text)
                        \o SubSeq(content, end + 1, Len(content))]_vars

\* C12: a crash during a write leaves the complete old content or the
\* complete new content in the file.
C12_AtomicWrite ==
    [][\A t \in Tasks :
          (At(t, "write_file") /\ resp'[t].kind = "crash")
          => files'[task[t].page] \in {files[task[t].page], NewContent(t)}]_vars


\* update_test_results has written: the step of task t that returns Ok
Updated(t) ==
    /\ At(t, "write_file") /\ task[t].op = "update_test_results"
    /\ resp'[t].status = "Ok"

\* C13: applying update_test_results to its own output with the same results
\* gives that output again.
C13_Idempotent ==
    [][\A t \in Tasks :
          Updated(t) =>
              update_test_results_content(files'[task[t].page], task[t].results)
                  = files'[task[t].page]]_vars

\* A position inside a fenced block: an odd number of fences before it.
InFence(content, i) ==
    Cardinality({j \in 1..(i - 1) : content[j] \in {"fence", "fence js", "fence JSON"}})
        % 2 = 1

LineStart(content, i) == i = 1 \/ content[i - 1] = "\n"

Occurs(content, i, pat) ==
    i + Len(pat) - 1 <= Len(content) /\ SubSeq(content, i, i + Len(pat) - 1) = pat

\* The results heading as a heading node: the marker alone on a line,
\* outside every fenced block.
MarkerHeadings(content) ==
    {i \in 1..Len(content) :
        /\ Occurs(content, i, Marker)
        /\ LineStart(content, i)
        /\ (i + Len(Marker) > Len(content) \/ content[i + Len(Marker)] = "\n")
        /\ ~InFence(content, i)}

\* A heading of level 1 or 2 that starts at position i.
SectionHeading(content, i) ==
    /\ LineStart(content, i) /\ ~InFence(content, i)
    /\ \/ Occurs(content, i, <<"#", " ">>)
       \/ Occurs(content, i, <<"#", "#", " ">>)

Suffix(content, i) == SubSeq(content, i, Len(content))
IsSuffix(tail, content) ==
    Len(tail) <= Len(content) /\ Suffix(content, Len(content) - Len(tail) + 1) = tail

\* C14: the section is the span from the results heading node to the next
\* heading of level 1 or 2; without such a node the section is appended, and
\* everything outside the span is as it was.
C14_SectionByHeadingNode ==
    [][\A t \in Tasks :
          Updated(t) =>
              LET content == task[t].content
                  new == files'[task[t].page]
                  heads == MarkerHeadings(content)
              IN IF heads = {}
                 THEN Len(content) <= Len(new) /\ SubSeq(new, 1, Len(content)) = content
                 ELSE LET h == CHOOSE i \in heads : \A j \in heads : i <= j
                          nexts == {j \in (h + 1)..Len(content) :
                                       SectionHeading(content, j)}
                      IN /\ Len(new) >= h - 1
                         /\ SubSeq(new, 1, h - 1) = SubSeq(content, 1, h - 1)
                         /\ nexts # {} =>
                               IsSuffix(Suffix(content,
                                               CHOOSE j \in nexts : \A k \in nexts : j <= k),
                                        new)]_vars


\* A request block: a request heading directly followed by code tagged js or
\* javascript, in any case of the letters.
RequestAt(ast, i) ==
    /\ i + 1 <= Len(ast)
    /\ ast[i].type = "heading" /\ ast[i].from = "agent"
    /\ ast[i + 1].type = "code"
    /\ to_lowercase(ast[i + 1].lang) \in {"js", "javascript"}

\* A reply block: a reply heading followed by code tagged JSON.
ReplyAt(ast, j) ==
    /\ j + 1 <= Len(ast)
    /\ ast[j].type = "heading" /\ ast[j].to = "agent"
    /\ ast[j + 1].type = "code" /\ ast[j + 1].lang = "JSON"

\* The request block at i is answered: a reply block follows before the
\* next request block.
HasFooter(ast, i) ==
    \E j \in (i + 2)..Len(ast) :
        ReplyAt(ast, j) /\ \A k \in (i + 1)..(j - 1) : ~RequestAt(ast, k)

Unanswered(ast, page_name) ==
    {i \in 1..Len(ast) :
        RequestAt(ast, i) /\ ast[i].to = page_name /\ ~HasFooter(ast, i)}

\* C15: parse_request returns the last request block for the page that has
\* no reply yet, with has_footer false, and none when there is no such block.
C15_MostRecentUnanswered ==
    [][\A t \in Tasks :
          (At(t, "find_request_in_ast") /\ task'[t].pc = "idle")
          => LET ast == task[t].content
                 open == Unanswered(ast, task[t].page)
             IN IF open = {}
                THEN resp'[t].status = "None"
                ELSE LET last == CHOOSE i \in open : \A j \in open : j <= i
                     IN /\ resp'[t].status = "Some"
                        /\ resp'[t].page = task[t].page
                        /\ resp'[t].code = ast[last + 1].value
                        /\ resp'[t].has_footer = FALSE]_vars


\* The Dispatched jobs of a page, and a poll that returns its response.
DispatchedFor(page_name) ==
    {id \in DOMAIN jobs :
        jobs[id].page_name = page_name /\ jobs[id].state = "Dispatched"}

PollReturns(t) == At(t, "poll_get_by_page") /\ task'[t].pc = "idle"

\* C16: when a page has Dispatched jobs, the poll returns one of them, and
\* none of them has started earlier than the one returned.
C16_EarliestStartedFirst ==
    [][\A t \in Tasks :
          (PollReturns(t) /\ DispatchedFor(task[t].page) # {})
          => /\ resp'[t].job_id \in DispatchedFor(task[t].page)
             /\ \A id \in DispatchedFor(task[t].page) :
                    jobs[resp'[t].job_id].started_at <= jobs[id].started_at]_vars

\* C17: a poll response for page P carries only a job of P, with that job's
\* code, and carries null for code and job_id when no job of P is
\* Dispatched, whatever jobs other pages have.
C17_PollCarriesOwnJobOnly ==
    [][\A t \in Tasks :
          PollReturns(t)
          => /\ resp'[t].job_id # NoId
                => /\ resp'[t].job_id \in DOMAIN jobs
                   /\ jobs[resp'[t].job_id].page_name = task[t].page
                   /\ resp'[t].code = jobs[resp'[t].job_id].code
             /\ DispatchedFor(task[t].page) = {}
                => resp'[t].code = Null /\ resp'[t].job_id = NoId]_vars

\* p1 was answered null while a job of p2 was Dispatched.
C17_Witness ==
    \E t \in Tasks :
        /\ resp[t].kind = "poll" /\ resp[t].page = "p1"
        /\ resp[t].code = Null /\ resp[t].job_id = NoId
        /\ DispatchedFor("p1") = {} /\ DispatchedFor("p2") # {}

\* C18: get_or_create on a registered name returns the entry as it is and
\* leaves the whole registry as it was, whatever url is passed.
C18_GetOrCreateKeepsEntry ==
    [][\A t \in Tasks :
          (/\ At(t, "poll_get_or_create") /\ task'[t].pc = "poll_jobs_lock"
           /\ task[t].page \in DOMAIN pages)
          => /\ pages' = pages
             /\ task'[t].entry = pages[task[t].page]]_vars

\* A page registered under one url, that has reported a state, polls later
\* under the other url: get_or_create has returned the old entry.
C18_Witness ==
    \E t \in Tasks :
        /\ At(t, "poll_jobs_lock")
        /\ task[t].entry = pages[task[t].page]
        /\ task[t].entry.url # task[t].url
        /\ task[t].entry.state # "Idle"
        /\ task[t].entry.last_seen # current_time(now)
        /\ DOMAIN pages = PageNames

\* C19: a state update leaves the page's last_seen at the current time, and
\* when a poll of a page returns, the page's last_seen is not older than
\* the arrival of that poll.
C19_LastSeenRefreshed ==
    [][\A t \in Tasks :
          /\ (/\ At(t, "registry_update_state_body") /\ task'[t].pc = "idle"
              /\ task[t].page \in DOMAIN pages)
             => pages'[task[t].page].last_seen = current_time(now)
          /\ PollReturns(t)
             => pages'[task[t].page].last_seen >= current_time(task[t].called_at)]_vars

\* C20: a result for a job id that the store does not hold writes no file
\* and no reply, changes no job, and is answered without a server error.
C20_UnknownJobNoOp ==
    [][\A t \in Tasks :
          /\ (At(t, "idle") /\ task'[t].op = "result")
             => files' = files /\ jobs' = jobs /\ replied' = replied
          /\ (/\ At(t, "result_get") /\ task'[t].pc # "result_get"
              /\ task[t].id \notin DOMAIN jobs)
             => /\ files' = files /\ jobs' = jobs /\ replied' = replied
                /\ locks' = locks
                /\ task'[t].pc = "idle"
                /\ resp'[t].kind = "result"
                /\ resp'[t].status \in {"200", "404"}]_vars

\* A result for an unknown id has been answered while the store held a job.
C20_Witness ==
    \E t \in Tasks :
        /\ resp[t].kind = "result" /\ resp[t].job_id \notin DOMAIN jobs
        /\ resp[t].status = "200"
        /\ jobs # <<>>
        /\ \A p \in PageNames : files[p] = <<>>


\* C21: when write_reply could not read the log, the handler answers 500 and
\* the log stays as it was; no file holding only the reply takes its place.
C21_ReadFailureSurfaced ==
    [][\A t \in Tasks :
          (/\ At(t, "write_file") /\ task[t].op = "result" /\ task[t].read_err
           /\ task'[t].pc # "write_file"
           /\ resp'[t].kind # "crash")
          => /\ files' = files
             /\ resp'[t].kind = "result"
             /\ resp'[t].status = "500"]_vars


\* The clock values a job can be created at, and a job waiting for a page.
JobClock == {1 + a + b * MsPerSec : a \in 0..MaxTicks, b \in 0..MaxTicks}

Waits(id) ==
    id \in DOMAIN jobs /\ jobs[id].state \in {"Dispatched", "Started"}

\* C22: no job stays Dispatched or Started forever: whether or not a poll or a
\* result arrives, it is moved on, to Timeout at the latest.
C22_SweptToTimeout ==
    \A ms \in JobClock : Waits(generate_id(ms)) ~> ~Waits(generate_id(ms))


\* C23: result_handler moves a job to its terminal state only after
\* write_reply has written the reply; no earlier step of the handler touches
\* the job store, and when write_reply fails the handler answers 500 and
\* ends there, the job as it was.
C23_ReplyBeforeTerminal ==
    [][\A t \in Tasks :
          /\ (At(t, "result_update_state") /\ task'[t].pc = "idle")
             => Count(replied, task[t].id) >= 1
          /\ (/\ task[t].op = "result" /\ task'[t] # task[t]
              /\ ~At(t, "result_update_state"))
             => jobs' = jobs
          /\ (/\ At(t, "write_file") /\ task[t].op = "result"
              /\ task'[t].pc # "write_file" /\ files' = files)
             => /\ task'[t].pc = "idle"
                /\ resp'[t].kind = "result" /\ resp'[t].status = "500"
                /\ jobs' = jobs]_vars

\* Two results for one job: the first was written and finished the job, the
\* write of the second failed and was answered 500.
C23_Witness ==
    \E t, u \in Tasks :
        /\ resp[t].kind = "result" /\ resp[t].status = "200"
        /\ resp[u].kind = "result" /\ resp[u].status = "500"
        /\ resp[t].job_id = resp[u].job_id
        /\ resp[t].job_id \in DOMAIN jobs
        /\ jobs[resp[t].job_id].state = "Finished"
        /\ Count(replied, resp[t].job_id) = 1


\* The watchers that calls still under way have built and not yet stored.
Building == {task[t].sub : t \in {u \in Tasks : At(u, "watch_store")}}

\* C24: the only watchers alive are the one the Watcher holds and those of
\* calls still under way, and only they are sent events, each for a file
\* its own target covers: once a later call has returned, the receiver of
\* an earlier call gets nothing more.
C24_OneSubscription ==
    [][/\ \A w \in live' :
             w.id = watcher' \/ \E t \in Tasks : task'[t].pc = "watch_store"
                                                 /\ task'[t].sub = w.id
       /\ (\A t \in Tasks : task'[t].pc = "idle") => Cardinality(live') <= 1
       /\ \A id \in 1..Len(rx) :
             rx'[id] # rx[id]
             => /\ id \in {watcher} \cup Building
                /\ rx'[id] = Append(rx[id], rx'[id][Len(rx'[id])])
                /\ Matches(Target(id), rx'[id][Len(rx'[id])])]_vars

\* The first receiver got an event for p1; a later call for p2 has returned
\* and its receiver alone got the event that followed.
C24_Witness ==
    /\ \A t \in Tasks : At(t, "idle")
    /\ watcher > 1
    /\ rx[1] = <<"p1">>
    /\ rx[watcher] = <<"p2">>
    /\ live = {[id |-> watcher, target |-> "p2"]}
    /\ \E t \in Tasks : resp[t].status = "Ok" /\ resp[t].rx = watcher

====
